---- MODULE Spec2Model ----
(***************************************************************************)
(* Ingestion pipeline of raspomushi: the web trigger check_new_songs, its  *)
(* background worker _do_check_new_songs (src/app.py), the standalone      *)
(* crawl script main (src/crawl_uta_net.py), and the SQLite corpus table   *)
(* "lyrics" they share.                                                    *)
(***************************************************************************)
EXTENDS Integers, Sequences, FiniteSets, TLC

\* ------------------------------------------------------------------ bounds
\* Runs that may be started in one behaviour (worker threads plus script
\* launches); also the range of the wall clock.
MaxRuns == 2
\* Environment events in one behaviour: a failing fetch, a gated listing,
\* a failing database call, a request to get_lyric or delete_lyric.
MaxEvents == 1
\* Largest value given to --limit of the crawl script.
MaxLimit == 4

\* Request threads of the web server that can be inside check_new_songs.
Handlers == {"t1", "t2"}
\* Worker thread k is the thread of the k-th run started.
Workers == 1..MaxRuns
\* Connection identities: worker k uses k, the crawl script uses CrawlConn,
\* and 0 stands for "no connection".
CrawlConn == MaxRuns + 1

\* -------------------------------------------------------------- variables
VARIABLES
    running,    \* check_new_songs._running (absent attribute = FALSE)
    hpc,        \* per request thread: where it is inside check_new_songs
    status,     \* HTTP status of the last response of check_new_songs (0 = none)
    worker,     \* per worker thread: locals of _do_check_new_songs
    crawl,      \* locals of main of crawl_uta_net.py
    lyrics,     \* committed rows of table lyrics
    seq,        \* committed AUTOINCREMENT high-water mark
    txn,        \* the one open write transaction: owner, its view, its seq
    uniqueIdx,  \* whether idx_lyrics_title exists
    clock,      \* wall clock read by datetime.now(); 1 + runs started
    events,     \* environment events so far
    settled,    \* how the last completed run left the corpus (see Settle)
    site,       \* which content the external site serves (see ItemPage)
    extr        \* locals of one call of the content extractor

vars == <<running, hpc, status, worker, crawl, lyrics, seq, txn, uniqueIdx, clock, events, settled, site, extr>>

\* ------------------------------------------------------------ the source
\* The external site.  A listing page is the sequence of its hyperlink
\* targets: n > 0 stands for href "/song/n/", 0 for any other href.
UTA_NET_PAGE_PATHS == <<"/artist/1686/", "/artist/1686/0/2/">>
ARTIST_PAGE_PATHS == <<"/artist/1686/", "/artist/1686/0/2/">>

ListingHtml(path) ==
    IF path = "/artist/1686/" THEN <<1, 0, 2, 1>> ELSE <<2, 3>>

\* The page served instead of a listing when the site gates the client
\* (EU/GDPR): it holds no song link.
GateHtml == <<0>>

\* What the item page of song sid extracts to: title and content.  The
\* page of song 3 is a stub on site 1 and carries its lyrics on site 2.
ItemPage(sid) ==
    CASE sid = 1 -> [title |-> "A", content |-> "0123456789"]
      [] sid = 2 -> [title |-> "A", content |-> "0123456789ab"]
      [] sid = 3 /\ site = 2 -> [title |-> "B", content |-> "0123456789abc"]
      [] OTHER   -> [title |-> "B", content |-> "012345678"]

\* ---------------------------------------------------------------- helpers
InSeq(x, s) == \E j \in 1..Len(s) : s[j] = x

RECURSIVE AppendNew(_, _)
\* Append the elements of s to acc, skipping those already there.
AppendNew(acc, s) ==
    IF s = <<>> THEN acc
    ELSE AppendNew(IF InSeq(Head(s), acc) THEN acc ELSE Append(acc, Head(s)),
                   Tail(s))

\* re.match(r"/song/(\d+)/?", href) succeeds exactly for the song links.
IsSongLink(href) == href > 0

\* An extraction without the membership test.
ExtractEveryLink(html) == SelectSeq(html, IsSongLink)

extract_song_ids_from_artist_page(html) ==
    AppendNew(<<>>, SelectSeq(html, IsSongLink))

\* No folding at all.
KeepAll(all_ids) == all_ids

\* The "seen" loop that folds all_song_ids into unique_ids.
Dedup(all_ids) == AppendNew(<<>>, all_ids)

\* The content gate: `not content or len(content) < 10`.
MIN_CONTENT_LEN == 10

\* A gate that lets 9 characters through.
TooShortOffByOne(content) == content = "" \/ Len(content) < MIN_CONTENT_LEN - 1

TooShort(content) == content = "" \/ Len(content) < MIN_CONTENT_LEN

\* ------------------------------------------------- the content extractor
\* _extract_title_and_lyrics (src/app.py) and extract_title_and_lyrics
\* (src/crawl_uta_net.py).  A text is a sequence of characters; the
\* characters that matter are kept apart: "x" an ordinary character, "NL"
\* a newline, "BLK" a run of 98 ordinary characters, "KASHI" and "SAKUSHI"
\* the two-character lyric indicators of the fallback test, "MARK1" and
\* "MARK2" the two trailing-boilerplate marker strings (14 and 11
\* characters; the first one contains the indicator "KASHI").
Weight(ch) ==
    CASE ch = "BLK" -> 98
      [] ch = "MARK1" -> 14
      [] ch = "MARK2" -> 11
      [] ch \in {"KASHI", "SAKUSHI"} -> 2
      [] OTHER -> 1

RECURSIVE TextLen(_)
\* len(text)
TextLen(s) == IF s = <<>> THEN 0 ELSE Weight(Head(s)) + TextLen(Tail(s))

\* The threshold of the fallback test: len(text) > 100.
FALLBACK_MIN_LEN == 100

RECURSIVE LStrip(_)
LStrip(s) == IF s # <<>> /\ Head(s) = "NL" THEN LStrip(Tail(s)) ELSE s

RECURSIVE RStrip(_)
RStrip(s) ==
    IF s # <<>> /\ s[Len(s)] = "NL" THEN RStrip(SubSeq(s, 1, Len(s) - 1)) ELSE s

\* str.strip(): whitespace is removed at both ends.
Strip(s) == RStrip(LStrip(s))

\* A div of the item page: its id and class attributes and its strings in
\* document order, each marked when it sits inside a script or style tag.
Div(id, class, nodes) == [id |-> id, class |-> class, nodes |-> nodes]
TextNode(s) == [script |-> FALSE, s |-> s]
ScriptNode(s) == [script |-> TRUE, s |-> s]

RECURSIVE JoinStripped(_)
JoinStripped(nodes) ==
    IF nodes = <<>> THEN <<>>
    ELSE LET h == Strip(Head(nodes).s)
             t == JoinStripped(Tail(nodes))
         IN IF h = <<>> THEN t ELSE IF t = <<>> THEN h ELSE h \o <<"NL">> \o t

\* div.get_text(separator="\n", strip=True): every string stripped, the
\* empty ones dropped, the rest joined by one newline.
GetTextStripped(nodes) == JoinStripped(nodes)

RECURSIVE GetTextRaw(_)
\* div.get_text(): the strings as they are, concatenated.
GetTextRaw(nodes) ==
    IF nodes = <<>> THEN <<>> ELSE Head(nodes).s \o GetTextRaw(Tail(nodes))

\* tag.decompose() for every script and style tag of the div.
Decompose(nodes) == SelectSeq(nodes, LAMBDA nd : ~nd.script)

\* "歌詞" in text: the indicator itself, or inside the first marker.
HasKashi(s) == InSeq("KASHI", s) \/ InSeq("MARK1", s)
\* "作詞" in text
HasSakushi(s) == InSeq("SAKUSHI", s)

\* soup.find: the first, in document order, of the positions S of the
\* divs that match; 0 when there is none.
FirstDiv(S) ==
    IF S = {} THEN 0 ELSE CHOOSE j \in S : \A q \in S : j <= q

\* Tier 1: id "kashi_area", else id "kashi".
ById(divs) ==
    LET a == FirstDiv({j \in 1..Len(divs) : divs[j].id = "kashi_area"})
    IN IF a # 0 THEN a ELSE FirstDiv({j \in 1..Len(divs) : divs[j].id = "kashi"})

\* `c in x` for the class values that occur.
ClassContains(class, c) ==
    CASE class = "kashi_area" -> c \in {"kashi_area", "kashi"}
      [] class = "kashi"      -> c = "kashi"
      [] class = "kashi_box"  -> c = "kashi"
      [] class = "song_table" -> c = "song_table"
      [] OTHER -> FALSE

\* Tier 2: the first class match for "kashi_area", then "kashi", then
\* "song_table".
ByClass(divs) ==
    LET a == FirstDiv({j \in 1..Len(divs) : ClassContains(divs[j].class, "kashi_area")})
        b == FirstDiv({j \in 1..Len(divs) : ClassContains(divs[j].class, "kashi")})
        c == FirstDiv({j \in 1..Len(divs) : ClassContains(divs[j].class, "song_table")})
    IN IF a # 0 THEN a ELSE IF b # 0 THEN b ELSE c

\* The test of the fallback loop.  app.py line 372 reads
\*   len(text) > 100 and ("歌詞" in text or "作詞" in div.get_text())
\* and crawl_uta_net.py line 111 reads, without the parentheses,
\*   len(text) > 100 and "歌詞" in text or "作詞" in div.get_text()
LooksLikeLyrics(prog, d) ==
    LET text == GetTextStripped(d.nodes) IN
    IF prog = "app"
    THEN TextLen(text) > FALLBACK_MIN_LEN
           /\ (HasKashi(text) \/ HasSakushi(GetTextRaw(d.nodes)))
    ELSE (TextLen(text) > FALLBACK_MIN_LEN /\ HasKashi(text))
           \/ HasSakushi(GetTextRaw(d.nodes))

ExcludedIds == {"header", "footer", "nav", "menu"}

\* Tier 3: the first div outside header/footer/nav/menu that passes the
\* test.
Fallback(prog, divs) ==
    FirstDiv({j \in 1..Len(divs) :
                 divs[j].id \notin ExcludedIds /\ LooksLikeLyrics(prog, divs[j])})

\* The tier that selects the container (0 when none does) and the
\* position of the container.
TierOf(prog, divs) ==
    IF ById(divs) # 0 THEN 1
    ELSE IF ByClass(divs) # 0 THEN 2
    ELSE IF Fallback(prog, divs) # 0 THEN 3 ELSE 0
SelectDiv(prog, divs) ==
    IF ById(divs) # 0 THEN ById(divs)
    ELSE IF ByClass(divs) # 0 THEN ByClass(divs)
    ELSE Fallback(prog, divs)

\* re.sub(r"\s*歌詞\s*-\s*歌ネット\s*$", "", t): the site suffix of the
\* <title> string is the word "SUFFIX".
StripSuffix(ws) ==
    IF ws # <<>> /\ ws[Len(ws)] = "SUFFIX" THEN SubSeq(ws, 1, Len(ws) - 1) ELSE ws

\* t.split(None, 1): everything after the first word, or the only word.
TitleFromTag(ws) ==
    LET t == StripSuffix(ws)
    IN IF t = <<>> THEN <<>> ELSE IF Len(t) > 1 THEN Tail(t) ELSE t

\* A title that is left as found.
TitleKept(t) == t

\* `if not title: title = "unknown"`
TitleOrUnknown(t) == IF t = <<>> THEN <<"unknown">> ELSE t

\* The title: h2, else <title>, else "unknown".
ExtractTitle(doc) ==
    TitleOrUnknown(IF doc.h2 # <<>> THEN doc.h2
                   ELSE IF doc.title.present THEN TitleFromTag(doc.title.words)
                   ELSE <<>>)

\* The text before the first occurrence of marker m.
Before(s, m) ==
    LET j == CHOOSE q \in 1..Len(s) : s[q] = m /\ \A p \in 1..(q - 1) : s[p] # m
    IN SubSeq(s, 1, j - 1)

\* `if m in content: content = content.split(m)[0].strip()`
CutAt(s, m) == IF InSeq(m, s) THEN Strip(Before(s, m)) ELSE s

\* A truncation that knows the first marker only.
TruncateFirstMarkerOnly(content) == CutAt(content, "MARK1")

\* The two truncations, in the order of the code.
Truncate(content) == CutAt(CutAt(content, "MARK1"), "MARK2")

\* The number of newlines s starts with.
RECURSIVE RunLen(_)
RunLen(s) == IF s # <<>> /\ Head(s) = "NL" THEN 1 + RunLen(Tail(s)) ELSE 0

RECURSIVE CollapseFromFour(_)
\* A collapse whose pattern is \n{4,}.
CollapseFromFour(s) ==
    IF s = <<>> THEN <<>>
    ELSE IF Head(s) = "NL"
         THEN LET r == RunLen(s)
              IN (IF r >= 4 THEN <<"NL", "NL">> ELSE SubSeq(s, 1, r))
                   \o CollapseFromFour(SubSeq(s, r + 1, Len(s)))
         ELSE <<Head(s)>> \o CollapseFromFour(Tail(s))

RECURSIVE Sub3(_)
\* re.sub(r"\n{3,}", "\n\n", s): leftmost maximal runs.
Sub3(s) ==
    IF s = <<>> THEN <<>>
    ELSE IF Head(s) = "NL"
         THEN LET r == RunLen(s)
              IN (IF r >= 3 THEN <<"NL", "NL">> ELSE SubSeq(s, 1, r))
                   \o Sub3(SubSeq(s, r + 1, Len(s)))
         ELSE <<Head(s)>> \o Sub3(Tail(s))

\* The substitution of line 385 (127 in the script).
CollapseBlank(s) == Sub3(s)

\* The whole function: title and content of an item page.
extract_title_and_lyrics(prog, doc) ==
    LET j == SelectDiv(prog, doc.divs)
    IN [title |-> ExtractTitle(doc),
        content |-> IF j = 0 THEN <<>>
                    ELSE Strip(CollapseBlank(Truncate(
                            GetTextStripped(Decompose(doc.divs[j].nodes)))))]

\* The pages given to the extractor.
NoTitleTag == [present |-> FALSE, words |-> <<>>]
TitleTag(ws) == [present |-> TRUE, words |-> ws]
Page(h2, title, divs) == [h2 |-> h2, title |-> title, divs |-> divs]

\* Longest lyric text, in characters of the model, and most divs on a page.
MaxText == 6
MaxDivs == 2

Chars == {"x", "NL", "MARK1", "MARK2"}
Texts == UNION {[1..n -> Chars] : n \in 0..MaxText}

\* Pages whose lyrics sit in <div id="kashi_area">.
BodyPages ==
    {Page(<<"song">>, NoTitleTag, <<Div("kashi_area", "", <<TextNode(t)>>)>>)
        : t \in Texts}

BlockTexts ==
    {<<"SAKUSHI">>, <<"BLK", "KASHI">>, <<"BLK", "KASHI", "x">>,
     <<"BLK", "SAKUSHI", "x">>, <<"BLK", "x", "x", "x">>}

\* Divs of pages without a lyric container of their own.
OtherDivs ==
    {Div(id, class, <<TextNode(t)>>)
        : id \in {"", "footer", "kashi"}, class \in {"", "kashi_box"},
          t \in BlockTexts}
      \cup {Div("", "", <<ScriptNode(<<"BLK", "KASHI">>), TextNode(<<"x", "NL", "x">>)>>),
            Div("", "song_table", <<TextNode(<<"x", "MARK2", "x">>),
                                    TextNode(<<"NL", "x", "NL">>)>>)}

LayoutPages ==
    {Page(<<"song">>, NoTitleTag, divs)
        : divs \in UNION {[1..n -> OtherDivs] : n \in 0..MaxDivs}}

\* Pages that differ in where the title can be read.
TitlePages ==
    {Page(h2, title, divs)
        : h2 \in {<<>>, <<"song">>},
          title \in {NoTitleTag, TitleTag(<<>>), TitleTag(<<"SUFFIX">>),
                     TitleTag(<<"song">>), TitleTag(<<"artist", "song", "SUFFIX">>)},
          divs \in {<<>>, <<Div("footer", "", <<TextNode(<<"BLK", "KASHI", "x">>)>>)>>,
                    <<Div("kashi", "", <<TextNode(<<"x">>)>>)>>}}

Pages == BodyPages \cup LayoutPages \cup TitlePages
Progs == {"app", "crawl"}

\* Locals of one call: the program, the page, the title, the position and
\* tier of the container (0 = None), the content.
NoExtraction ==
    [pc |-> "off", prog |-> "app", doc |-> Page(<<>>, NoTitleTag, <<>>),
     title |-> <<>>, lyrics_div |-> 0, tier |-> 0, text |-> <<>>, content |-> <<>>]

\* Locals of a run.  pages_ok, gated, written, exit, taint and elig record
\* what happened: listing pages fetched, whether the site gates this client,
\* ids of the rows the run wrote successfully, the way the run left its
\* body, whether a database call of the run raised (1) or the source
\* failed it or another writer changed the corpus under it (2), and the
\* value of settled when the run was triggered.  fetches and waits count
\* the calls of requests.get and of time.sleep, fetched lists the ids whose
\* item page was requested, summary is what line 472 prints, added
\* counts the rows the commits of the run added to the table.
NoSummary == [total_found |-> 0, inserted |-> 0, skipped |-> 0]

IdleWorker ==
    [pc |-> "idle", now |-> 0, page |-> 0, all_song_ids |-> <<>>,
     unique_ids |-> <<>>, i |-> 0, title |-> "", content |-> "",
     inserted |-> 0, skipped |-> 0, errors |-> <<>>, row |-> 0,
     pages_ok |-> 0, gated |-> FALSE, written |-> {}, exit |-> "",
     taint |-> 0, elig |-> "none",
     fetches |-> 0, waits |-> 0, fetched |-> <<>>, summary |-> NoSummary,
     added |-> 0]

IdleCrawl ==
    [pc |-> "off", now |-> 0, page |-> 0, all_ids |-> <<>>,
     unique_ids |-> <<>>, i |-> 0, title |-> "", content |-> "", row |-> 0,
     inserted |-> 0, updated |-> 0, printed |-> 0,
     pages_ok |-> 0, gated |-> FALSE, written |-> {},
     taint |-> 0, elig |-> "none",
     fetches |-> 0, waits |-> 0, fetched |-> <<>>, limit |-> 0]

NoTxn == [owner |-> 0, rows |-> {}, seq |-> 0]

\* What connection c reads: its own uncommitted view, else committed rows.
View(c) == IF txn.owner = c THEN txn.rows ELSE lyrics
SeqOf(c) == IF txn.owner = c THEN txn.seq ELSE seq

\* conn.close() / process death: an open transaction of c is rolled back.
Rollback(c) == IF txn.owner = c THEN NoTxn ELSE txn

\* A lookup that never finds the title.
LookupMiss(rows, title) == {}

\* SELECT id FROM lyrics WHERE title = ?
LookupByTitle(rows, title) == {r \in rows : r.title = title}

\* fetchone(): the row with the smallest id among the matches.
FetchOne(rows) == CHOOSE r \in rows : \A q \in rows : r.id <= q.id

\* INSERT INTO lyrics (title, content, created_at, updated_at)
NewRow(id, title, content, now) ==
    [id |-> id, title |-> title, content |-> content, created_at |-> now,
     updated_at |-> now, last_opened_at |-> 0, view_count |-> 0]

\* An UPDATE that rewrites the whole row, as INSERT OR REPLACE would.
UpdateReplacingRow(rows, id, content, now) ==
    {IF r.id = id THEN [r EXCEPT !.content = content, !.updated_at = now,
                                 !.created_at = now, !.view_count = 0]
                  ELSE r
        : r \in rows}

\* UPDATE lyrics SET content = ?, updated_at = ? WHERE id = ?
UpdateContent(rows, id, content, now) ==
    {IF r.id = id THEN [r EXCEPT !.content = content, !.updated_at = now] ELSE r
        : r \in rows}

\* Whether connection c can take the write lock.
CanWrite(c) == txn.owner \in {0, c}

\* Whether an INSERT of title by connection c goes through: the lock is
\* free and the unique index (when present) admits the title.
CanInsert(c, title) ==
    /\ CanWrite(c)
    /\ ~(uniqueIdx /\ LookupByTitle(View(c), title) # {})

\* The outcomes the environment may give to a call that can fail.
Outcomes == IF events < MaxEvents THEN {TRUE, FALSE} ELSE {TRUE}
Count(ok) == IF ok THEN events ELSE events + 1

\* An item step: everything works, the fetch raises, or the SELECT raises.
ItemOutcomes ==
    IF events < MaxEvents THEN {"ok", "fetch_error", "db_error"} ELSE {"ok"}

\* A listing fetch: the page, the gate page, or an error.  A client the
\* site gates is served the gate page for every listing of the run.
ListingOutcomes(gated) ==
    (IF gated THEN {"gate"} ELSE {"ok"})
      \cup (IF events < MaxEvents THEN {"gate", "error"} ELSE {})
CountListing(o, gated) ==
    IF o = "ok" \/ (o = "gate" /\ gated) THEN events ELSE events + 1
Served(o, path) == IF o = "gate" THEN GateHtml ELSE ListingHtml(path)

\* requests.get is called for a listing page.
Attempt(r) == [r EXCEPT !.fetches = @ + 1]

\* requests.get is called for the item page of song sid.
FetchItem(r, sid) == [r EXCEPT !.fetches = @ + 1, !.fetched = Append(@, sid)]

\* time.sleep(UTA_NET_REQUEST_DELAY)
Wait(r) == [r EXCEPT !.waits = @ + 1]

\* A database call of run r raised.
Faulted(r) == [r EXCEPT !.taint = IF @ = 2 THEN 2 ELSE 1]

\* The source did not serve run r what it serves otherwise: a fetch raised
\* or a listing came back as the gate page.
SourceFault(r) == [r EXCEPT !.taint = 2]

\* Another writer changed the rows while run r was under way.
Disturbed(r) ==
    IF r.pc \in {"idle", "off"} THEN r ELSE [r EXCEPT !.taint = 2, !.elig = "none"]

\* What a run that completed leaves in settled: "clean" when the source
\* served it everything, no database call raised and nobody else changed
\* the corpus; "any" when only database calls raised; "none" otherwise.
Settle(r) == IF r.taint = 0 THEN "clean" ELSE IF r.taint = 1 THEN "any" ELSE "none"

\* The processes before anything ran: empty table, flag absent.
Boot ==
    /\ running = FALSE
    /\ hpc = [h \in Handlers |-> "idle"]
    /\ status = 0
    /\ worker = [k \in Workers |-> IdleWorker]
    /\ crawl = IdleCrawl
    /\ lyrics = {}
    /\ seq = 0
    /\ txn = NoTxn
    /\ uniqueIdx = FALSE
    /\ clock = 1
    /\ events = 0
    /\ settled = "none"

Init ==
    /\ Boot
    /\ site = 1
    /\ extr = NoExtraction

\* ------------------------------------------------- check_new_songs handler
Alive == {k \in Workers : worker[k].pc # "idle"}
Busy == Cardinality(Alive) + Cardinality({h \in Handlers : hpc[h] # "idle"})

\* The test of line 491.
AlreadyRunning == running

\* Lines 491-495: a request is answered 409 when the flag is set;
\* otherwise the thread goes on to line 498.
CheckRunning(h) ==
    /\ hpc[h] = "idle"
    /\ IF AlreadyRunning
       THEN /\ status' = 409
            /\ UNCHANGED hpc
       ELSE /\ hpc' = [hpc EXCEPT ![h] = "set"]
            /\ UNCHANGED status
    /\ UNCHANGED <<running, worker, crawl, lyrics, seq, txn, uniqueIdx, clock, events, settled, site, extr>>

\* Line 498: check_new_songs._running = True
SetRunning(h) ==
    /\ hpc[h] = "set"
    /\ running' = TRUE
    /\ hpc' = [hpc EXCEPT ![h] = "start"]
    /\ UNCHANGED <<status, worker, crawl, lyrics, seq, txn, uniqueIdx, clock, events, settled, site, extr>>

\* A handler that runs the first steps of the run itself before it answers.
StartThreadInline(h) ==
    /\ hpc[h] = "start"
    /\ clock <= MaxRuns
    /\ worker' = [worker EXCEPT ![clock] =
                     [Attempt(IdleWorker) EXCEPT !.pc = "list", !.now = clock, !.page = 1,
                                                 !.elig = settled]]
    /\ clock' = clock + 1
    /\ hpc' = [hpc EXCEPT ![h] = "idle"]
    /\ status' = 200
    /\ UNCHANGED <<running, crawl, lyrics, seq, txn, uniqueIdx, events, settled, site, extr>>

\* Lines 499-505: start the daemon thread, answer 200.
StartThread(h) ==
    /\ hpc[h] = "start"
    /\ clock <= MaxRuns
    /\ worker' = [worker EXCEPT ![clock] =
                     [IdleWorker EXCEPT !.pc = "begin", !.elig = settled]]
    /\ clock' = clock + 1
    /\ hpc' = [hpc EXCEPT ![h] = "idle"]
    /\ status' = 200
    /\ UNCHANGED <<running, crawl, lyrics, seq, txn, uniqueIdx, events, settled, site, extr>>

\* ------------------------------------------------ _do_check_new_songs
\* Lines 393-399: open the connection, read the clock, read the titles.
\* A failing SELECT raises into the outer except.
WorkerBegin(k) ==
    /\ worker[k].pc = "begin"
    /\ \E ok \in Outcomes :
         /\ worker' = [worker EXCEPT ![k] =
              IF ok THEN [@ EXCEPT !.pc = "list", !.now = clock, !.page = 1]
                    ELSE [@ EXCEPT !.pc = "finally", !.exit = "exception"]]
         /\ events' = Count(ok)
    /\ UNCHANGED <<running, hpc, status, crawl, lyrics, seq, txn, uniqueIdx, clock, settled, site, extr>>

\* Lines 415-433: dedup, the empty test, the counters of the item phase.
AfterListing(w, all_ids) ==
    LET u == Dedup(all_ids) IN
    IF u = <<>>
    THEN [w EXCEPT !.pc = "finally", !.exit = "empty", !.all_song_ids = all_ids,
                   !.pages_ok = w.pages_ok + 1]
    ELSE [w EXCEPT !.pc = "item", !.all_song_ids = all_ids, !.unique_ids = u,
                   !.i = 1, !.inserted = 0, !.skipped = 0, !.errors = <<>>,
                   !.pages_ok = w.pages_ok + 1]

\* What the worker does when the fetch of a listing page raises
\* (lines 410-413): close the connection and return.
ListingFailed(w) == [w EXCEPT !.pc = "finally", !.exit = "listing_error"]

\* Lines 403-413: one listing page.
WorkerListing(k) ==
    /\ worker[k].pc = "list"
    /\ \E o \in ListingOutcomes(worker[k].gated) :
         LET w == Attempt(IF o = "gate" THEN SourceFault(worker[k]) ELSE worker[k])
             path == UTA_NET_PAGE_PATHS[w.page]
             all_ids == w.all_song_ids \o
                          extract_song_ids_from_artist_page(Served(o, path))
         IN /\ worker' = [worker EXCEPT ![k] =
                 IF o = "error" THEN ListingFailed(w)
                 ELSE IF w.page < Len(UTA_NET_PAGE_PATHS)
                      THEN [Wait(w) EXCEPT !.all_song_ids = all_ids, !.page = w.page + 1,
                                           !.pages_ok = w.pages_ok + 1,
                                           !.gated = (o = "gate")]
                      ELSE AfterListing(Wait(w), all_ids)]
            /\ events' = CountListing(o, worker[k].gated)
    /\ UNCHANGED <<running, hpc, status, crawl, lyrics, seq, txn, uniqueIdx, clock, settled, site, extr>>

\* A failing fetch that ends the run.
FetchErrorAborts(w, sid) ==
    [Wait(SourceFault(w)) EXCEPT
        !.errors = Append(@, [song_id |-> sid, error |-> "fetch"]),
        !.pc = "finally", !.exit = "exception"]

\* Lines 440-443: the fetch or the extraction raised: record the error,
\* sleep, continue.
FetchError(w, sid) ==
    [Wait(SourceFault(w)) EXCEPT
        !.errors = Append(@, [song_id |-> sid, error |-> "fetch"]),
        !.i = w.i + 1]

\* Lines 445-448: the gated item is counted as skipped and the loop goes on.
GateSkip(w, page) ==
    [Wait(w) EXCEPT !.title = page.title, !.content = page.content,
              !.skipped = w.skipped + 1, !.i = w.i + 1]

\* A skip that is not counted.
SkipUncounted(w, page) ==
    [Wait(w) EXCEPT !.title = page.title, !.content = page.content, !.i = w.i + 1]

\* Lines 453-454: the title exists: count a skip, write nothing.
SkipExisting(w, page) ==
    [Wait(w) EXCEPT !.title = page.title, !.content = page.content,
              !.skipped = w.skipped + 1, !.i = w.i + 1]

\* Lines 435-455: fetch and extract one item, the content gate, the dedup
\* lookup.  The lookup is outside the inner try: a failing SELECT raises
\* into the outer except of line 474.
WorkerItem(k) ==
    /\ worker[k].pc = "item"
    /\ worker[k].i <= Len(worker[k].unique_ids)
    /\ \E o \in ItemOutcomes :
         LET sid == worker[k].unique_ids[worker[k].i]
             w == FetchItem(worker[k], sid)
             page == ItemPage(sid)
         IN /\ worker' = [worker EXCEPT ![k] =
                 IF o = "fetch_error" THEN FetchError(w, sid)
                 ELSE IF TooShort(page.content) THEN GateSkip(w, page)
                 ELSE IF o = "db_error"
                      THEN [w EXCEPT !.title = page.title, !.content = page.content,
                                     !.pc = "finally", !.exit = "exception"]
                 ELSE IF LookupByTitle(View(k), page.title) # {}
                      THEN SkipExisting(w, page)
                      ELSE [w EXCEPT !.title = page.title, !.content = page.content,
                                     !.pc = "insert"]]
            /\ events' = IF o = "ok" \/ (o = "db_error" /\ TooShort(page.content))
                         THEN events ELSE events + 1
    /\ UNCHANGED <<running, hpc, status, crawl, lyrics, seq, txn, uniqueIdx, clock, settled, site, extr>>

\* Lines 466-467: the except of the inner try.
DbError(w) ==
    [Wait(Faulted(w)) EXCEPT !.errors = Append(@, [title |-> w.title, error |-> "db"]),
                       !.i = w.i + 1, !.pc = "item"]

\* Lines 458-462: the INSERT.  It raises when the write lock is held by
\* another connection or the unique index rejects the title, and may raise
\* for any other database fault.
WorkerInsert(k) ==
    /\ worker[k].pc = "insert"
    /\ LET w == worker[k] IN
       \E ok \in Outcomes :
         /\ IF ok /\ CanInsert(k, w.title)
            THEN /\ txn' = [owner |-> k,
                            rows |-> View(k) \cup
                                {NewRow(SeqOf(k) + 1, w.title, w.content, w.now)},
                            seq |-> SeqOf(k) + 1]
                 /\ worker' = [worker EXCEPT ![k].pc = "commit", ![k].row = SeqOf(k) + 1]
            ELSE /\ worker' = [worker EXCEPT ![k] = DbError(w)]
                 /\ UNCHANGED txn
         /\ events' = Count(ok)
    /\ UNCHANGED <<running, hpc, status, crawl, lyrics, seq, uniqueIdx, clock, settled, site, extr>>

\* A commit that is not counted.
CommittedUncounted(w) ==
    [Wait(w) EXCEPT !.i = w.i + 1, !.pc = "item", !.written = w.written \cup {w.row},
              !.added = w.added + Cardinality(txn.rows \ lyrics)]

\* Lines 463-465: the per-item commit succeeded.
Committed(w) ==
    [Wait(w) EXCEPT !.inserted = w.inserted + 1, !.i = w.i + 1, !.pc = "item",
              !.written = w.written \cup {w.row},
              !.added = w.added + Cardinality(txn.rows \ lyrics)]

\* Lines 463-467: the per-item commit.  A failing commit leaves the
\* transaction open and is recorded like a failing INSERT.
WorkerCommit(k) ==
    /\ worker[k].pc = "commit"
    /\ LET w == worker[k] IN
       \E ok \in Outcomes :
         /\ IF ok
            THEN /\ lyrics' = txn.rows
                 /\ seq' = txn.seq
                 /\ txn' = NoTxn
                 /\ worker' = [j \in Workers |->
                        IF j = k THEN Committed(w) ELSE Disturbed(worker[j])]
                 /\ crawl' = Disturbed(crawl)
                 /\ settled' = "none"
            ELSE /\ worker' = [worker EXCEPT ![k] = DbError(w)]
                 /\ UNCHANGED <<lyrics, seq, txn, crawl, settled>>
         /\ events' = Count(ok)
    /\ UNCHANGED <<running, hpc, status, uniqueIdx, clock, site, extr>>

\* An end of the loop that never gets to the summary.
SummaryNeverReached(w) == w

\* Line 472: the summary printed at the end of the run.
Summary(w) ==
    [w EXCEPT !.pc = "finally", !.exit = "done",
              !.summary = [total_found |-> Len(w.unique_ids),
                           inserted |-> w.inserted, skipped |-> w.skipped]]

\* Lines 471-472: the loop is over: close the connection, print the summary.
WorkerSummary(k) ==
    /\ worker[k].pc = "item"
    /\ worker[k].i > Len(worker[k].unique_ids)
    /\ txn' = Rollback(k)
    /\ worker' = [worker EXCEPT ![k] = Summary(worker[k])]
    /\ settled' = Settle(worker[k])
    /\ UNCHANGED <<running, hpc, status, crawl, lyrics, seq, uniqueIdx, clock, events, site, extr>>

\* A reset that happens only after a run that reached its summary.
ResetAfterSuccessOnly(w) == w.exit # "done"

\* The value the finally clause stores into _running (line 479).
ResetValue(w) == FALSE

\* Lines 476-479: the finally clause; the thread ends and its connection
\* is dropped.
WorkerFinally(k) ==
    /\ worker[k].pc = "finally"
    /\ running' = ResetValue(worker[k])
    /\ txn' = Rollback(k)
    /\ worker' = [worker EXCEPT ![k] = IdleWorker]
    /\ UNCHANGED <<hpc, status, crawl, lyrics, seq, uniqueIdx, clock, events, settled, site, extr>>

\* --------------------------------------------------------- API handlers
\* get_lyric: bump view_count and last_opened_at of one row, commit.
GetLyric(id) ==
    /\ txn.owner = 0
    /\ events < MaxEvents
    /\ events' = events + 1
    /\ \E r \in lyrics :
         /\ r.id = id
         /\ lyrics' = (lyrics \ {r}) \cup
               {[r EXCEPT !.view_count = r.view_count + 1, !.last_opened_at = clock]}
    /\ UNCHANGED <<running, hpc, status, worker, crawl, seq, txn, uniqueIdx, clock, settled, site, extr>>

\* delete_lyric: DELETE FROM lyrics WHERE id = ?, commit.
DeleteLyric(id) ==
    /\ txn.owner = 0
    /\ events < MaxEvents
    /\ events' = events + 1
    /\ \E r \in lyrics : r.id = id
    /\ lyrics' = {r \in lyrics : r.id # id}
    /\ worker' = [j \in Workers |-> Disturbed(worker[j])]
    /\ crawl' = Disturbed(crawl)
    /\ settled' = "none"
    /\ UNCHANGED <<running, hpc, status, seq, txn, uniqueIdx, clock, site, extr>>

\* The web process is killed and started again: every thread and the
\* in-memory flag are gone, open transactions are rolled back, the
\* database file stays.
WebCrash ==
    /\ Busy > 0
    /\ running' = FALSE
    /\ hpc' = [h \in Handlers |-> "idle"]
    /\ status' = 0
    /\ worker' = [k \in Workers |-> IdleWorker]
    /\ txn' = IF txn.owner \in Workers THEN NoTxn ELSE txn
    /\ UNCHANGED <<crawl, lyrics, seq, uniqueIdx, clock, events, settled, site, extr>>

\* ------------------------------------------- crawl_uta_net.py: main
\* The script is launched (python crawl_uta_net.py [--limit n]); without
\* the option args.limit is 0.
CrawlStart ==
    /\ crawl.pc = "off"
    /\ clock <= MaxRuns
    /\ clock' = clock + 1
    /\ \E n \in 0..MaxLimit :
         crawl' = [IdleCrawl EXCEPT !.pc = "init", !.elig = settled, !.limit = n]
    /\ UNCHANGED <<running, hpc, status, worker, lyrics, seq, txn, uniqueIdx, events, settled, site, extr>>

\* Rows of a table in which some title occurs twice.
HasDuplicateTitle(rows) ==
    \E r \in rows : \E q \in rows : r.title = q.title /\ r.id # q.id

\* Lines 137-139 and init_db (46-57): CREATE UNIQUE INDEX IF NOT EXISTS
\* raises, and the script dies, when the write lock is taken or the table
\* already holds a duplicate title.
CrawlInit ==
    /\ crawl.pc = "init"
    /\ \E ok \in Outcomes :
         /\ IF ~ok \/ (~uniqueIdx /\ (~CanWrite(CrawlConn) \/ HasDuplicateTitle(lyrics)))
            THEN /\ crawl' = IdleCrawl
                 /\ UNCHANGED uniqueIdx
            ELSE /\ crawl' = [crawl EXCEPT !.pc = "list", !.now = clock, !.page = 1]
                 /\ uniqueIdx' = TRUE
         /\ events' = Count(ok)
    /\ UNCHANGED <<running, hpc, status, worker, lyrics, seq, txn, clock, settled, site, extr>>

\* A limit that is never applied.
LimitIgnored(ids, n) == ids

\* Lines 162-163: unique_ids[: args.limit] when args.limit > 0.
Limited(ids, n) ==
    IF n > 0 THEN SubSeq(ids, 1, IF n < Len(ids) THEN n ELSE Len(ids)) ELSE ids

\* Lines 154-170: dedup, the limit, the empty test.
CrawlAfterListing(c, all_ids) ==
    LET u == Limited(Dedup(all_ids), c.limit) IN
    IF u = <<>>
    THEN IdleCrawl
    ELSE [c EXCEPT !.pc = "item", !.all_ids = all_ids, !.unique_ids = u, !.i = 1,
                   !.inserted = 0, !.updated = 0]

\* What the script does when the fetch of a listing page raises
\* (lines 150-152): print and go on with the next page.
CrawlListingFailed(c) == [Attempt(SourceFault(c)) EXCEPT !.printed = c.printed + 1]

\* Lines 142-170: one listing page.
CrawlListing ==
    /\ crawl.pc = "list"
    /\ \E o \in ListingOutcomes(crawl.gated) :
         LET path == ARTIST_PAGE_PATHS[crawl.page]
             c == IF o = "error" THEN CrawlListingFailed(crawl)
                  ELSE [Wait(Attempt(IF o = "gate" THEN SourceFault(crawl) ELSE crawl)) EXCEPT
                            !.pages_ok = crawl.pages_ok + 1,
                            !.gated = (o = "gate")]
             all_ids == IF o = "error" THEN crawl.all_ids
                        ELSE crawl.all_ids \o
                               extract_song_ids_from_artist_page(Served(o, path))
         IN /\ crawl' = IF crawl.page < Len(ARTIST_PAGE_PATHS)
                        THEN [c EXCEPT !.all_ids = all_ids, !.page = crawl.page + 1]
                        ELSE CrawlAfterListing(c, all_ids)
            /\ events' = CountListing(o, crawl.gated)
    /\ UNCHANGED <<running, hpc, status, worker, lyrics, seq, txn, uniqueIdx, clock, settled, site, extr>>

\* Lines 174-194: fetch and extract one item, the content gate, the lookup.
\* Here the lookup is inside the try: a failing SELECT is printed and the
\* loop goes on.
CrawlItem ==
    /\ crawl.pc = "item"
    /\ crawl.i <= Len(crawl.unique_ids)
    /\ \E o \in ItemOutcomes :
         LET sid == crawl.unique_ids[crawl.i]
             c == FetchItem(crawl, sid)
             page == ItemPage(sid)
             found == LookupByTitle(View(CrawlConn), page.title)
         IN /\ crawl' =
                 IF o = "fetch_error"
                 THEN [Wait(SourceFault(c)) EXCEPT !.printed = c.printed + 1, !.i = c.i + 1]
                 ELSE IF TooShort(page.content)
                 THEN [Wait(c) EXCEPT !.title = page.title, !.content = page.content,
                                      !.i = c.i + 1]
                 ELSE IF o = "db_error"
                 THEN [Wait(Faulted(c)) EXCEPT !.title = page.title, !.content = page.content,
                                         !.printed = c.printed + 1, !.i = c.i + 1]
                 ELSE [c EXCEPT !.title = page.title, !.content = page.content,
                                !.row = IF found = {} THEN 0 ELSE FetchOne(found).id,
                                !.pc = "write"]
            /\ events' = IF o = "ok" \/ (o = "db_error" /\ TooShort(page.content))
                         THEN events ELSE events + 1
    /\ UNCHANGED <<running, hpc, status, worker, lyrics, seq, txn, uniqueIdx, clock, settled, site, extr>>

\* Lines 207-208: the except of the try around the statements.
CrawlDbError(c) ==
    [Wait(Faulted(c)) EXCEPT !.printed = c.printed + 1, !.i = c.i + 1, !.pc = "item"]

\* The rows the script's transaction holds after its statement for the
\* current item: UPDATE of the row found (195-199), else INSERT (201-206).
CrawlStatement(c) ==
    IF c.row # 0
    THEN UpdateContent(View(CrawlConn), c.row, c.content, c.now)
    ELSE View(CrawlConn) \cup {NewRow(SeqOf(CrawlConn) + 1, c.title, c.content, c.now)}

\* Lines 194-211: the UPDATE or the INSERT.  Nothing is committed here.
CrawlWrite ==
    /\ crawl.pc = "write"
    /\ LET c == crawl IN
       \E ok \in Outcomes :
         /\ IF ok /\ (IF c.row # 0 THEN CanWrite(CrawlConn)
                                   ELSE CanInsert(CrawlConn, c.title))
            THEN /\ txn' = [owner |-> CrawlConn,
                            rows |-> CrawlStatement(c),
                            seq |-> IF c.row # 0 THEN SeqOf(CrawlConn)
                                                 ELSE SeqOf(CrawlConn) + 1]
                 /\ crawl' = [Wait(c) EXCEPT
                        !.updated = IF c.row # 0 THEN @ + 1 ELSE @,
                        !.inserted = IF c.row # 0 THEN @ ELSE @ + 1,
                        !.written = @ \cup {IF c.row # 0 THEN c.row
                                            ELSE SeqOf(CrawlConn) + 1},
                        !.i = c.i + 1, !.pc = "item"]
            ELSE /\ crawl' = CrawlDbError(c)
                 /\ UNCHANGED txn
         /\ events' = Count(ok)
    /\ UNCHANGED <<running, hpc, status, worker, lyrics, seq, uniqueIdx, clock, settled, site, extr>>

\* Lines 213-215: the one commit of the script, after the loop.  A failing
\* commit is not caught: the script dies and the transaction is lost.
CrawlCommit ==
    /\ crawl.pc = "item"
    /\ crawl.i > Len(crawl.unique_ids)
    /\ \E ok \in Outcomes :
         /\ IF ok
            THEN /\ lyrics' = View(CrawlConn)
                 /\ seq' = SeqOf(CrawlConn)
                 /\ worker' = [j \in Workers |->
                        IF View(CrawlConn) = lyrics THEN worker[j]
                        ELSE Disturbed(worker[j])]
                 /\ settled' = Settle(crawl)
            ELSE UNCHANGED <<lyrics, seq, worker, settled>>
         /\ events' = Count(ok)
    /\ txn' = Rollback(CrawlConn)
    /\ crawl' = IdleCrawl
    /\ UNCHANGED <<running, hpc, status, uniqueIdx, clock, site, extr>>

\* The script is killed (or the machine stops): its transaction is lost.
CrawlKill ==
    /\ crawl.pc # "off"
    /\ txn' = Rollback(CrawlConn)
    /\ crawl' = IdleCrawl
    /\ UNCHANGED <<running, hpc, status, worker, lyrics, seq, uniqueIdx, clock, events, settled, site, extr>>

CrawlNext ==
    \/ CrawlStart
    \/ CrawlInit
    \/ CrawlListing
    \/ CrawlItem
    \/ CrawlWrite
    \/ CrawlCommit
    \/ CrawlKill

WebNext ==
    \/ \E h \in Handlers : CheckRunning(h)
    \/ \E h \in Handlers : SetRunning(h)
    \/ \E h \in Handlers : StartThread(h)
    \/ \E k \in Workers : WorkerBegin(k)
    \/ \E k \in Workers : WorkerListing(k)
    \/ \E k \in Workers : WorkerItem(k)
    \/ \E k \in Workers : WorkerInsert(k)
    \/ \E k \in Workers : WorkerCommit(k)
    \/ \E k \in Workers : WorkerSummary(k)
    \/ \E k \in Workers : WorkerFinally(k)
    \/ WebCrash

ApiNext ==
    \/ \E id \in 1..seq : GetLyric(id)
    \/ \E id \in 1..seq : DeleteLyric(id)

Next == WebNext

\* Ingestion in the web process: triggers, workers, restarts.
Spec == Init /\ [][Next]_vars

\* The steps of worker thread k.
WorkerStep(k) ==
    \/ WorkerBegin(k)
    \/ WorkerListing(k)
    \/ WorkerItem(k)
    \/ WorkerInsert(k)
    \/ WorkerCommit(k)
    \/ WorkerSummary(k)
    \/ WorkerFinally(k)

\* The web process with worker threads that are scheduled fairly: a started
\* thread is not starved, and every call it makes (requests.get with its
\* timeout, sqlite3 with its busy timeout, time.sleep) returns or raises.
SpecLive == Init /\ [][Next]_vars /\ \A k \in Workers : WF_vars(WorkerStep(k))

\* The web process against site 2, where the item pages carry two
\* different titles that pass the content gate.
InitAcct ==
    /\ Boot
    /\ site = 2
    /\ extr = NoExtraction
SpecAcct == InitAcct /\ [][Next]_vars

\* The crawl script, beside a web process that serves get_lyric and
\* delete_lyric and ingests nothing.
NextCrawl == CrawlNext \/ ApiNext
SpecCrawl == Init /\ [][NextCrawl]_vars

\* The web process with its API handlers, no script.
NextApi == WebNext \/ ApiNext
SpecApi == Init /\ [][NextApi]_vars

\* ------------------------------------- one call of the content extractor
\* The function is called with a page.
InitExtract ==
    /\ Boot
    /\ site = 1
    /\ extr \in {[NoExtraction EXCEPT !.pc = "title", !.prog = p, !.doc = d]
                    : p \in Progs, d \in Pages}

Elsewhere ==
    UNCHANGED <<running, hpc, status, worker, crawl, lyrics, seq, txn, uniqueIdx,
                clock, events, settled, site>>

\* Lines 347-359 (82-96): the title.
ExtractorTitle ==
    /\ extr.pc = "title"
    /\ extr' = [extr EXCEPT !.pc = "select", !.title = ExtractTitle(extr.doc)]
    /\ Elsewhere

\* Lines 361-376 (99-116): the three tiers; content = "" when they find
\* nothing.
ExtractorSelect ==
    /\ extr.pc = "select"
    /\ extr' = [extr EXCEPT
           !.lyrics_div = SelectDiv(extr.prog, extr.doc.divs),
           !.tier = TierOf(extr.prog, extr.doc.divs),
           !.pc = IF SelectDiv(extr.prog, extr.doc.divs) = 0 THEN "done" ELSE "text"]
    /\ Elsewhere

\* Lines 377-380 (117-121): drop script and style, take the text.
ExtractorText ==
    /\ extr.pc = "text"
    /\ LET t == GetTextStripped(Decompose(extr.doc.divs[extr.lyrics_div].nodes))
       IN extr' = [extr EXCEPT !.text = t, !.content = t, !.pc = "cut"]
    /\ Elsewhere

\* Lines 381-384 (123-126): cut at the markers.
ExtractorTruncate ==
    /\ extr.pc = "cut"
    /\ extr' = [extr EXCEPT !.content = Truncate(extr.content), !.pc = "collapse"]
    /\ Elsewhere

\* Line 385 (127): collapse the blank lines, strip; then return.
ExtractorCollapse ==
    /\ extr.pc = "collapse"
    /\ extr' = [extr EXCEPT !.content = Strip(CollapseBlank(extr.content)),
                            !.pc = "done"]
    /\ Elsewhere

NextExtract ==
    \/ ExtractorTitle
    \/ ExtractorSelect
    \/ ExtractorText
    \/ ExtractorTruncate
    \/ ExtractorCollapse

\* The extractor alone, on every page of Pages, in both programs.
SpecExtract == InitExtract /\ [][NextExtract]_vars

\* ------------------------------------------------------------ the claims
Runs == {worker[k] : k \in Workers} \cup {crawl}
ItemPhase == {"item", "insert", "commit", "write"}

\* Rows of connection c's open transaction that differ from what is
\* committed.
Pending(c) == IF txn.owner = c THEN txn.rows \ lyrics ELSE {}

\* Worker k makes a step of its own from the head of the item loop.
OwnItemStep(k) ==
    /\ worker[k].pc = "item"
    /\ worker[k].i <= Len(worker[k].unique_ids)
    /\ worker'[k].i # worker[k].i \/ worker'[k].pc # worker[k].pc
    /\ worker'[k].pc # "idle"

\* ... in which the fetch and the lookup did not raise.
OwnItemStepOk(k) ==
    /\ OwnItemStep(k)
    /\ worker'[k].errors = worker[k].errors
    /\ worker'[k].pc # "finally"

CurrentPage(k) == ItemPage(worker[k].unique_ids[worker[k].i])

\* C1: at most one ingestion worker is in flight at any time.
C1_SingleFlight == Cardinality(Alive) <= 1

\* C2: whenever every run that was started has ended (no worker is alive
\* and no request thread sits between setting the flag and starting its
\* thread), running is false, whatever the exit path was, so the next
\* trigger is accepted.
C2_GuaranteedReset ==
    (Alive = {} /\ \A h \in Handlers : hpc[h] # "start") => ~AlreadyRunning

\* A run was accepted, met a fault and has ended; nothing is in flight.
C2_Witness ==
    /\ Alive = {}
    /\ \A h \in Handlers : hpc[h] = "idle"
    /\ status = 200
    /\ events > 0
    /\ ~running

\* C3: when a runner stands at the head of the item loop, no write of an
\* item it has written successfully is still uncommitted.
C3_PerItemCommit ==
    /\ \A k \in Workers :
         worker[k].pc = "item" => \A r \in Pending(k) : r.id \notin worker[k].written
    /\ crawl.pc = "item" => \A r \in Pending(CrawlConn) : r.id \notin crawl.written

\* C4: a run is in its item phase only when every listing page was fetched
\* and at least one id was found, and a run that aborted in the listing
\* phase has written nothing.
C4_ListingAllOrNothing ==
    /\ \A r \in Runs :
         r.pc \in ItemPhase =>
            r.pages_ok = Len(UTA_NET_PAGE_PATHS) /\ r.unique_ids # <<>>
    /\ \A k \in Workers :
         worker[k].exit \in {"listing_error", "empty"} =>
            worker[k].written = {} /\ worker[k].i = 0

\* C5: a trigger that tests the flag while a worker is in flight is
\* answered 409 and changes nothing else.
C5_RejectInFlight ==
    [][\A h \in Handlers :
          (Alive # {} /\ CheckRunning(h)) =>
             /\ status' = 409
             /\ UNCHANGED <<running, hpc, worker, crawl, lyrics, seq, txn,
                            uniqueIdx, clock, events, settled>>]_vars

C7_SkipPolicy ==
    [][\A k \in Workers :
          (/\ OwnItemStepOk(k)
           /\ ~TooShort(CurrentPage(k).content)
           /\ \E r \in lyrics : r.title = CurrentPage(k).title)
          => /\ lyrics' = lyrics
             /\ txn' = txn
             /\ seq' = seq
             /\ worker'[k].skipped = worker[k].skipped + 1
             /\ worker'[k].inserted = worker[k].inserted
             /\ worker'[k].pc = "item"]_vars

\* A worker of a later run has skipped item 1, whose title an earlier run
\* committed.
C7_Witness ==
    \E k \in Workers :
        /\ worker[k].pc = "item"
        /\ worker[k].i = 2
        /\ worker[k].skipped = 1
        /\ worker[k].errors = <<>>
        /\ \E r \in lyrics : r.title = "A" /\ r.created_at < worker[k].now

\* The script's step is the UPDATE of the row its lookup found.
IsUpdate ==
    crawl.pc = "write" /\ crawl.row # 0 /\ crawl'.updated = crawl.updated + 1

\* The script's step is its commit.
IsCommit == crawl.pc = "item" /\ crawl'.pc = "off" /\ lyrics' # lyrics

\* C8: the script's UPDATE changes content and updated_at of the row found
\* and nothing else: every other row and every other column stay, no row
\* appears or disappears; and its commit keeps id, title, created_at and the
\* counters of every row that was there, adding only the rows it inserted.
C8_UpdatePolicy ==
    [][/\ IsUpdate =>
             /\ Cardinality(txn'.rows) = Cardinality(View(CrawlConn))
             /\ \A r \in View(CrawlConn) :
                  IF r.id = crawl.row
                  THEN [r EXCEPT !.content = crawl.content,
                                 !.updated_at = crawl.now] \in txn'.rows
                  ELSE r \in txn'.rows
       /\ IsCommit =>
             /\ Cardinality(lyrics') = Cardinality(lyrics) + crawl.inserted
             /\ \A r \in lyrics : \E q \in lyrics' :
                  /\ q.id = r.id
                  /\ q.title = r.title
                  /\ q.created_at = r.created_at
                  /\ q.view_count = r.view_count
                  /\ q.last_opened_at = r.last_opened_at]_vars

\* The script has overwritten a row of an earlier run that was opened once.
C8_Witness ==
    /\ txn.owner = CrawlConn
    /\ crawl.updated >= 1
    /\ \E r \in txn.rows :
         r.view_count = 1 /\ r.created_at < r.updated_at /\ r.updated_at = crawl.now

\* C9: no two committed rows have the same title.
C9_TitleUnique == ~HasDuplicateTitle(lyrics)

\* C10: every row, committed or in a transaction, has at least 10
\* characters of content; a worker's step on an item with shorter content
\* writes nothing and counts one skip; a worker's step on an item with 10
\* characters or more whose title no row has goes on to the INSERT.
C10_ContentGate ==
    /\ [](\A r \in lyrics \cup txn.rows : Len(r.content) >= MIN_CONTENT_LEN)
    /\ [][\A k \in Workers :
            /\ (OwnItemStepOk(k) /\ Len(CurrentPage(k).content) < MIN_CONTENT_LEN)
               => /\ lyrics' = lyrics
                  /\ txn' = txn
                  /\ worker'[k].skipped = worker[k].skipped + 1
                  /\ worker'[k].pc = "item"
            /\ (/\ OwnItemStepOk(k)
                /\ Len(CurrentPage(k).content) >= MIN_CONTENT_LEN
                /\ ~\E r \in View(k) : r.title = CurrentPage(k).title)
               => worker'[k].pc = "insert"]_vars

\* A row of exactly 10 characters is committed and a worker has counted the
\* 9-character item as skipped.
C10_Witness ==
    /\ \E r \in lyrics : Len(r.content) = MIN_CONTENT_LEN
    /\ \E k \in Workers :
         /\ worker[k].pc = "item"
         /\ worker[k].i = 4
         /\ Len(worker[k].content) = MIN_CONTENT_LEN - 1
         /\ worker[k].skipped >= 1

\* The last item-level error worker k has recorded after the step.
LastError(k) == worker'[k].errors[Len(worker'[k].errors)]

\* Worker k's step from the head of the item loop is a failing fetch.
FetchFailed(k) ==
    /\ OwnItemStep(k)
    /\ Len(worker'[k].errors) = Len(worker[k].errors) + 1
    /\ "song_id" \in DOMAIN LastError(k)

\* C11: a worker's step in which the fetch or the extraction of an item
\* fails records the error for that item's id, takes the rate-limit wait,
\* moves to the next id with the loop still running, and writes nothing.
C11_FetchErrorNonFatal ==
    [][\A k \in Workers :
          FetchFailed(k) =>
             /\ LastError(k).song_id = worker[k].unique_ids[worker[k].i]
             /\ worker'[k].waits = worker[k].waits + 1
             /\ worker'[k].i = worker[k].i + 1
             /\ worker'[k].pc = "item"
             /\ worker'[k].inserted = worker[k].inserted
             /\ worker'[k].skipped = worker[k].skipped
             /\ lyrics' = lyrics
             /\ txn' = txn
             /\ running' = running]_vars

\* The fetch of item 1 failed and the worker went on to insert item 2.
C11_Witness ==
    \E k \in Workers :
        /\ worker[k].pc = "item"
        /\ worker[k].i = 3
        /\ worker[k].errors = <<[song_id |-> 1, error |-> "fetch"]>>
        /\ worker[k].inserted = 1

\* C12: a run that entered the item phase leaves it only when every id has
\* been processed: no database failure ends the loop early.
C12_PersistenceErrorPerItem ==
    \A k \in Workers :
        (worker[k].pc = "finally" /\ worker[k].unique_ids # <<>>)
           => worker[k].i > Len(worker[k].unique_ids)

IsPrefix(a, b) == Len(a) <= Len(b) /\ \A j \in 1..Len(a) : a[j] = b[j]

\* C13: the ids fetched so far are an initial part of the id sequence, and
\* when a runner stands at the head of the item loop nothing it wrote for
\* an earlier item is waiting for a later commit.
C13_OrderedCommits ==
    /\ \A k \in Workers :
         /\ IsPrefix(worker[k].fetched, worker[k].unique_ids)
         /\ worker[k].pc = "item" => Pending(k) = {}
    /\ IsPrefix(crawl.fetched, crawl.unique_ids)
    /\ crawl.pc = "item" => Pending(CrawlConn) = {}

\* The next step of run r is a fetch.
AboutToFetch(r) ==
    r.pc = "list" \/ (r.pc = "item" /\ r.i <= Len(r.unique_ids))

\* C14: a run that is about to fetch has waited after every fetch it made,
\* and a worker that has left its body has waited after every fetch.
C14_RateLimit ==
    /\ \A r \in Runs : AboutToFetch(r) => r.waits = r.fetches
    /\ \A k \in Workers : worker[k].pc = "finally" => worker[k].waits = worker[k].fetches

\* C15: while a worker is fetching or writing, running is true.
C15_RunningWhileWorking ==
    (\E k \in Workers : worker[k].pc \in {"list", "item", "insert", "commit"})
       => running

\* C16: the summary of a run that went through the item phase carries the
\* item-level errors the run recorded.
C16_SummaryCarriesErrors ==
    \A k \in Workers :
        (worker[k].exit = "done" /\ worker[k].errors # <<>>)
           => /\ "errors" \in DOMAIN worker[k].summary
              /\ worker[k].summary.errors = worker[k].errors

\* C17: a run that reaches its summary without any item-level error reports
\* total_found = number of unique ids, inserted = number of rows it wrote,
\* inserted + skipped = total_found; every item that passes the gate has
\* its title in the corpus, and the rows the run wrote have different
\* titles (a title an earlier item of the run inserted is skipped).
C17_EndToEnd ==
    \A k \in Workers :
        (worker[k].exit = "done" /\ worker[k].errors = <<>>) =>
           LET w == worker[k] IN
           /\ w.summary.total_found = Len(w.unique_ids)
           /\ w.summary.inserted = Cardinality(w.written)
           /\ w.summary.inserted + w.summary.skipped = Len(w.unique_ids)
           /\ \A j \in 1..Len(w.unique_ids) :
                Len(ItemPage(w.unique_ids[j]).content) >= MIN_CONTENT_LEN
                   => \E r \in lyrics : r.title = ItemPage(w.unique_ids[j]).title
           /\ \A id \in w.written : \E r \in lyrics : r.id = id
           /\ \A a \in lyrics : \A b \in lyrics :
                (a.id \in w.written /\ b.id \in w.written /\ a.title = b.title)
                   => a.id = b.id

\* On an empty corpus: three ids found, "A" inserted once, the second "A"
\* and the 9-character item skipped.
C17_Witness ==
    \E k \in Workers :
        /\ worker[k].exit = "done"
        /\ worker[k].errors = <<>>
        /\ worker[k].summary = [total_found |-> 3, inserted |-> 1, skipped |-> 2]

\* C18: while a run is in flight, every step that changes the committed
\* rows is the commit of the one worker in flight; in particular nothing
\* changes them between a worker's lookup and its write.
C18_SoleWriter ==
    [][(Alive # {} /\ lyrics' # lyrics) =>
          \E k \in Workers :
              /\ Alive = {k}
              /\ worker[k].pc = "commit"
              /\ worker'[k].inserted = worker[k].inserted + 1]_vars

NoDup(ids) == \A a \in 1..Len(ids) : \A b \in 1..Len(ids) : ids[a] = ids[b] => a = b

MaxLinks == 3
LinkTargets == 0..2
Htmls == UNION {[1..n -> LinkTargets] : n \in 0..MaxLinks}

\* Where x occurs first in s.
FirstIndex(s, x) == CHOOSE j \in 1..Len(s) : s[j] = x /\ \A m \in 1..(j - 1) : s[m] # x

\* ids holds each element of s once, in the order of first occurrence in s.
FirstSeen(ids, s) ==
    /\ NoDup(ids)
    /\ {ids[j] : j \in 1..Len(ids)} = {s[j] : j \in 1..Len(s)}
    /\ \A a \in 1..Len(ids) : \A b \in 1..Len(ids) :
         a < b => FirstIndex(s, ids[a]) < FirstIndex(s, ids[b])

\* The extraction on every page of Htmls.
ExtractFirstSeen ==
    /\ \A html \in Htmls :
         FirstSeen(extract_song_ids_from_artist_page(html), SelectSeq(html, IsSongLink))
    /\ extract_song_ids_from_artist_page(<<1, 2, 1>>) = <<1, 2>>

\* C20: the extraction returns each song id of a page once, in the order of
\* its first link; the id sequence of a run holds each id collected from
\* the listing pages once, in first-seen order, and the ids collected are
\* the extractions of the pages in page order.
C20_DiscoveryOrder ==
    /\ ExtractFirstSeen
    /\ \A k \in Workers :
         worker[k].pc \in ItemPhase =>
            /\ FirstSeen(worker[k].unique_ids, worker[k].all_song_ids)
            /\ ~worker[k].gated /\ worker[k].taint = 0 =>
                  worker[k].all_song_ids =
                     extract_song_ids_from_artist_page(ListingHtml(UTA_NET_PAGE_PATHS[1]))
                       \o extract_song_ids_from_artist_page(ListingHtml(UTA_NET_PAGE_PATHS[2]))

\* A worker has collected 1, 2 from the first page and 2, 3 from the second.
C20_Witness ==
    \E k \in Workers :
        /\ worker[k].pc = "item"
        /\ worker[k].all_song_ids = <<1, 2, 2, 3>>
        /\ worker[k].unique_ids = <<1, 2, 3>>

\* C21: the trigger handler performs no fetch and no corpus write in any of
\* its steps, and the step that answers 200 leaves the new worker at the
\* start of its body, every other worker as it was, and the flag as it was:
\* the acknowledgment is returned without waiting for the run.
C21_AckWithoutWaiting ==
    [][\A h \in Handlers :
         /\ (CheckRunning(h) \/ SetRunning(h) \/ StartThread(h)) =>
               /\ lyrics' = lyrics /\ seq' = seq /\ txn' = txn
               /\ \A k \in Workers :
                    /\ worker'[k].fetches = worker[k].fetches
                    /\ worker'[k].fetched = worker[k].fetched
                    /\ worker'[k].written = worker[k].written
         /\ StartThread(h) =>
               /\ status' = 200
               /\ hpc'[h] = "idle"
               /\ running' = running
               /\ worker'[clock].pc = "begin"
               /\ \A k \in Workers \ {clock} : worker'[k] = worker[k]]_vars

\* The 200 has been returned, no handler is inside the function, and the
\* run it started has not begun its body while running is still true.
C21_Witness ==
    /\ status = 200
    /\ running
    /\ \A h \in Handlers : hpc[h] = "idle"
    /\ \E k \in Workers : worker[k].pc = "begin" /\ worker[k].fetches = 0

\* C22 (as stated): when none of the three tiers finds a container, extract
\* returns an empty title and an empty content.
C22_EmptyWhenNoContainer ==
    (extr.pc = "done" /\ extr.lyrics_div = 0) =>
        extr.title = <<>> /\ extr.content = <<>>

\* C22 (amended): when none of the three tiers finds a container, extract
\* returns an empty content; the title is still the one of the page (the h2
\* text when there is one) and is "unknown", never empty, when the page
\* gives none.
C22_EmptyContentWhenNoContainer ==
    (extr.pc = "done" /\ extr.lyrics_div = 0) =>
        /\ extr.content = <<>>
        /\ extr.title # <<>>
        /\ extr.doc.h2 # <<>> => extr.title = extr.doc.h2
        /\ (extr.doc.h2 = <<>> /\ ~extr.doc.title.present) => extr.title = <<"unknown">>
        /\ [title |-> extr.title, content |-> extr.content]
             = extract_title_and_lyrics(extr.prog, extr.doc)

\* A page with a div, none of which any tier selects, and no title.
C22_Witness ==
    /\ extr.pc = "done"
    /\ extr.lyrics_div = 0
    /\ extr.doc.divs # <<>>
    /\ extr.content = <<>>
    /\ extr.title = <<"unknown">>

\* Whether the div at position j of the page under extraction is what the
\* fallback is said to look for: no chrome id, flattened text longer than
\* 100 characters, and a lyric indicator in it.
FallbackEligible(j) ==
    LET d == extr.doc.divs[j]
        text == GetTextStripped(d.nodes)
    IN /\ d.id \notin ExcludedIds
       /\ TextLen(text) > FALLBACK_MIN_LEN
       /\ (HasKashi(text) \/ HasSakushi(GetTextRaw(d.nodes)))

\* C23: when the fallback tier selects the container, no div of the page
\* matches by id or class, and the selected div is the first one in
\* document order without a chrome id whose flattened text is longer than
\* 100 characters and contains a lyric indicator; a div whose text has 100
\* characters or fewer is never selected by the fallback, and the fallback
\* finds nothing only when no div qualifies.
C23_FallbackSelection ==
    (extr.pc \in {"text", "cut", "collapse", "done"} /\ extr.tier \in {0, 3}) =>
        /\ ById(extr.doc.divs) = 0
        /\ ByClass(extr.doc.divs) = 0
        /\ extr.tier = 3 =>
              /\ FallbackEligible(extr.lyrics_div)
              /\ \A j \in 1..(extr.lyrics_div - 1) : ~FallbackEligible(j)
              /\ TextLen(GetTextStripped(extr.doc.divs[extr.lyrics_div].nodes))
                    > FALLBACK_MIN_LEN
        /\ extr.tier = 0 => \A j \in 1..Len(extr.doc.divs) : ~FallbackEligible(j)

\* The same statement for the calls made by app.py only.
C23_InApp == extr.prog = "app" => C23_FallbackSelection

\* The text before the first occurrence of either marker; the whole text
\* when it holds no marker.
BeforeFirstMarker(s) ==
    LET S == {j \in 1..Len(s) : s[j] \in {"MARK1", "MARK2"}}
    IN IF S = {} THEN s
       ELSE SubSeq(s, 1, (CHOOSE j \in S : \A q \in S : j <= q) - 1)

\* C24: once the container text has been cut, the content is the text
\* before the first occurrence of either marker, trimmed, and the content
\* extract returns (that text with its blank lines collapsed) contains
\* neither marker, for every page.
C24_Truncation ==
    /\ extr.pc = "collapse" =>
          /\ extr.content = Strip(BeforeFirstMarker(extr.text))
          /\ ~InSeq("MARK1", extr.content) /\ ~InSeq("MARK2", extr.content)
    /\ extr.pc = "done" =>
          /\ extr.lyrics_div # 0 =>
                extr.content = Strip(CollapseBlank(Strip(BeforeFirstMarker(extr.text))))
          /\ ~InSeq("MARK1", extr.content) /\ ~InSeq("MARK2", extr.content)

\* A text with both markers, the second before the first, and lyrics
\* before them: the lyrics are returned, what follows is cut.
C24_Witness ==
    /\ extr.pc = "done"
    /\ \E a \in 1..Len(extr.text) : \E b \in 1..Len(extr.text) :
         /\ extr.text[a] = "MARK2" /\ extr.text[b] = "MARK1" /\ a < b
         /\ a > 1
         /\ extr.content = Strip(SubSeq(extr.text, 1, a - 1))
    /\ extr.content # <<>>

RECURSIVE RunShape(_)
\* A text as the sequence of its characters with every maximal run of
\* newlines counted as one entry of length n.
RunShape(s) ==
    IF s = <<>> THEN <<>>
    ELSE IF Head(s) = "NL"
         THEN LET r == RunLen(s)
              IN <<[ch |-> "NL", n |-> r]>> \o RunShape(SubSeq(s, r + 1, Len(s)))
         ELSE <<[ch |-> Head(s), n |-> 1]>> \o RunShape(Tail(s))

\* b is a with every run of 3 or more newlines made a run of exactly 2
\* and nothing else changed.
Squeezed(a, b) ==
    LET sa == RunShape(a)
        sb == RunShape(b)
    IN /\ Len(sa) = Len(sb)
       /\ \A j \in 1..Len(sa) :
            /\ sb[j].ch = sa[j].ch
            /\ sb[j].n = IF sa[j].ch = "NL" /\ sa[j].n >= 3 THEN 2 ELSE sa[j].n

NoTripleNewline(s) ==
    \A j \in 1..(Len(s) - 2) : ~(s[j] = "NL" /\ s[j + 1] = "NL" /\ s[j + 2] = "NL")

\* C25: the collapse step replaces every run of 3 or more consecutive
\* newlines of the text by exactly 2 newlines and changes nothing else; the
\* content extract returns never contains 3 consecutive newlines, and
\* collapsing it again changes nothing.
C25_BlankLineCollapse ==
    /\ [](extr.pc = "done" =>
            /\ NoTripleNewline(extr.content)
            /\ Strip(CollapseBlank(extr.content)) = extr.content)
    /\ [][extr.pc = "collapse" => Squeezed(extr.content, extr'.content)]_vars

\* Four newlines between two lines of lyrics have become exactly two.
C25_Witness ==
    /\ extr.pc = "done"
    /\ extr.text = <<"x", "NL", "NL", "NL", "NL", "x">>
    /\ extr.content = <<"x", "NL", "NL", "x">>

\* The ids the item phase of the script is to fetch: the first
\* min(limit, count) ids of the deduplicated sequence for a positive limit,
\* all of them for limit 0.
FirstIds(ids, n) ==
    [j \in 1..(IF n > 0 /\ n < Len(ids) THEN n ELSE Len(ids)) |-> ids[j]]

\* C26: in the item phase of the script the id sequence is the first
\* min(N, number of discovered ids) ids of the deduplicated sequence for
\* --limit N > 0 and the whole deduplicated sequence for N = 0; the item
\* pages requested are an initial part of it, in order, and all of it when
\* the loop is over.
C26_Limit ==
    crawl.pc \in {"item", "write"} =>
        LET want == FirstIds(Dedup(crawl.all_ids), crawl.limit)
        IN /\ crawl.unique_ids = want
           /\ IsPrefix(crawl.fetched, want)
           /\ Len(crawl.fetched) = (IF crawl.pc = "write" THEN crawl.i ELSE crawl.i - 1)
           /\ (crawl.pc = "item" /\ crawl.i > Len(crawl.unique_ids)) => crawl.fetched = want

\* --limit 2 with three ids discovered: the loop is over and the first two
\* ids, and only they, were fetched.
C26_Witness ==
    /\ crawl.pc = "item"
    /\ crawl.i > Len(crawl.unique_ids)
    /\ crawl.limit = 2
    /\ Dedup(crawl.all_ids) = <<1, 2, 3>>
    /\ crawl.fetched = <<1, 2>>

\* --limit 4 with three ids discovered: all three were fetched.
C26_WitnessBeyond ==
    /\ crawl.pc = "item"
    /\ crawl.i > Len(crawl.unique_ids)
    /\ crawl.limit = 4
    /\ crawl.fetched = <<1, 2, 3>>

\* C27: under fair scheduling of the worker threads every run that was
\* started comes to its end: its thread is gone and running is false.
C27_RunEnds ==
    \A k \in Workers :
        (worker[k].pc # "idle") ~> (worker[k].pc = "idle" /\ ~running)

\* A run went through its whole item loop and ended: no thread is left,
\* the flag is down, its row is in the corpus.
C27_Witness ==
    /\ clock > 1
    /\ status = 200
    /\ Alive = {}
    /\ \A h \in Handlers : hpc[h] = "idle"
    /\ ~running
    /\ settled = "clean"
    /\ lyrics # {}

\* C28: while a worker is in its item loop, the items it has processed are
\* counted once each: inserted + skipped + len(errors) is the number of
\* items processed; when the run reaches its summary the sum is
\* total_found; and inserted is the number of rows the commits of the run
\* have added to the corpus.
C28_Accounting ==
    \A k \in Workers :
        LET w == worker[k]
            counted == w.inserted + w.skipped + Len(w.errors)
        IN /\ w.pc = "item" => counted = w.i - 1
           /\ w.pc \in {"insert", "commit"} => counted = w.i - 1
           /\ w.exit = "done" => counted = Len(w.unique_ids)
           /\ w.pc \in {"item", "insert", "commit"} \/ w.exit = "done"
                 => w.inserted = w.added

\* The counting part of C28 alone.
C28_Counted ==
    \A k \in Workers :
        LET w == worker[k]
            counted == w.inserted + w.skipped + Len(w.errors)
        IN /\ w.pc \in {"item", "insert", "commit"} => counted = w.i - 1
           /\ w.exit = "done" => counted = Len(w.unique_ids)

====
